---- MODULE Spec2Model ----
(***************************************************************************)
(* Model of the LCA evaluation path of bw25fastapi: the run_lca request    *)
(* handler and staticLCA (src/main.py), with the brightway collaborators   *)
(* (process graph store, method registry, bc.LCA) reduced to the contracts *)
(* the handler relies on.                                                  *)
(***************************************************************************)
EXTENDS Integers, Sequences, FiniteSets, TLC

\* ---------------------------------------------------------------- bounds
MaxDemands == 2
MaxKeys == 2
MaxAmount == 2
MaxMethods == 2
MaxCalls == 3

\* ------------------------------------------------- process graph store
\* bd.projects: the projects known to the data store.
Projects == {"default", "proj"}

\* bd.databases of a project.
DatabasesOf(project) == IF project = "proj" THEN {"db"} ELSE {}

\* The processes of database "db": P1 (diagonal 1) needs 2 units of P2 per
\* unit, P2 (diagonal 1) emits 5 units of E per unit, P3 has no production
\* exchange (zero diagonal).
Activities ==
    { [id |-> 1, code |-> "P1", database |-> "db", name |-> "assembly", location |-> "GLO"],
      [id |-> 2, code |-> "P2", database |-> "db", name |-> "steel", location |-> "RER"],
      [id |-> 3, code |-> "P3", database |-> "db", name |-> "stub", location |-> "GLO"] }

Codes == {"P1", "P2", "P3", "PX"}

Flows == {"E"}

\* A[row, col]: amount of process `row` produced (+) or consumed (-) by one
\* unit of activity of process `col`.
TechnosphereEntry(row, col) ==
    CASE row = 1 /\ col = 1 -> 1
      [] row = 2 /\ col = 2 -> 1
      [] row = 2 /\ col = 1 -> -2
      [] OTHER -> 0

\* B[flow, col]: amount of the elementary flow per unit of activity of `col`.
BiosphereEntry(flow, col) == IF flow = "E" /\ col = 2 THEN 5 ELSE 0

\* db.get(code) / bd.get_activity((database, code)) in a project: the set of
\* matching activities (empty when the lookup raises).
Lookup(project, database, code) ==
    { a \in Activities : /\ database \in DatabasesOf(project)
                         /\ a.database = database
                         /\ a.code = code }

Exists(project, key) == Lookup(project, key[1], key[2]) # {}

get_activity(project, key) == CHOOSE a \in Lookup(project, key[1], key[2]) : TRUE

\* str(act): the label documented for the result keys,
\* (activity name, location, code, database).
Label(act) == <<act.name, act.location, act.code, act.database>>

\* ------------------------------------------------------ method registry
M1 == <<"EF", "climate change", "GWP100">>
M2 == <<"EF", "climate change", "GWP20">>
MX == <<"ZZ", "none", "none">>

\* bd.methods, in registry order.
methods_registry == <<M1, M2>>

RegisteredMethods == { methods_registry[i] : i \in DOMAIN methods_registry }

\* characterization factors of a registered method, per elementary flow.
characterization_factors(method) ==
    [e \in Flows |-> IF method = M1 THEN 3 ELSE 1]

\* ------------------------------------------------------------- helpers
Range(seq) == { seq[i] : i \in DOMAIN seq }

RECURSIVE SumOver(_, _)
SumOver(S, f) ==
    IF S = {} THEN 0
    ELSE LET x == CHOOSE y \in S : TRUE IN f[x] + SumOver(S \ {x}, f)

\* A Python dict is an insertion-ordered sequence of <<key, value>> pairs
\* with distinct keys.
DictKeys(d) == [i \in DOMAIN d |-> d[i][1]]
DictKeySet(d) == { d[i][1] : i \in DOMAIN d }

Min(S) == CHOOSE x \in S : \A y \in S : x <= y


\* dict[key] = value: replaces the value of an existing key in place, appends
\* a new key at the end.
DictSet(d, key, value) ==
    IF key \in DictKeySet(d)
    THEN [i \in DOMAIN d |-> IF d[i][1] = key THEN <<key, value>> ELSE d[i]]
    ELSE Append(d, <<key, value>>)

DictHas(d, key) == key \in DictKeySet(d)

DictGet(d, key) == d[CHOOSE i \in DOMAIN d : d[i][1] = key][2]

\* {key: value for key in keys}
RECURSIVE DictFromKeys(_, _)
DictFromKeys(keys, value) ==
    IF keys = <<>> THEN <<>>
    ELSE DictSet(DictFromKeys(SubSeq(keys, 1, Len(keys) - 1), value),
                 keys[Len(keys)], value)

\* The initial content of a result slot.
None == [computed |-> FALSE, score |-> 0]

Computed(x) == [computed |-> TRUE, score |-> x]

\* ------------------------------------------------- bc.LCA (collaborator)
\* processes that supply process `col` through a non-zero technosphere flow
Suppliers(col) ==
    { a.id : a \in { b \in Activities : b.id # col /\ TechnosphereEntry(b.id, col) # 0 } }

\* Matrix Builder index set: the processes reachable from the demanded ones.
RECURSIVE Closure(_)
Closure(S) ==
    LET T == S \cup UNION { Suppliers(j) : j \in S }
    IN IF T = S THEN S ELSE Closure(T)

technosphere_matrix(index) ==
    [ij \in index \X index |-> TechnosphereEntry(ij[1], ij[2])]

biosphere_matrix(index) ==
    [ej \in Flows \X index |-> BiosphereEntry(ej[1], ej[2])]

\* build_demand_array: the dense demand vector f of an {id: amount} demand
demand_array(index, demand) ==
    [i \in index |-> IF DictHas(demand, i) THEN DictGet(demand, i) ELSE 0]

\* A has no unique solution when a diagonal entry is zero.
Singular(A, index) == \E i \in index : A[<<i, i>>] = 0

\* solve A.s = f by forward substitution in index order (A is lower
\* triangular in the store's numbering).
RECURSIVE ForwardSolve(_, _, _, _)
ForwardSolve(A, index, f, s) ==
    IF DOMAIN s = index THEN s
    ELSE LET i == Min(index \ DOMAIN s)
             done_part == [j \in DOMAIN s |-> A[<<i, j>>] * s[j]]
             rhs == f[i] - SumOver(DOMAIN s, done_part)
         IN ForwardSolve(A, index, f, (i :> (rhs \div A[<<i, i>>])) @@ s)

solve(A, index, f) == ForwardSolve(A, index, f, <<>>)

\* lca.inventory = B . diag(s)
inventory(B, index, s) ==
    [ej \in Flows \X index |-> B[ej] * s[ej[2]]]

\* lca.characterization_matrix of a method: diagonal over the flows
build_characterization(method) == characterization_factors(method)

\* (C * lca.inventory).sum()
score(C, inv) ==
    SumOver(DOMAIN inv, [ej \in DOMAIN inv |-> C[ej[1]] * inv[ej]])

\* No LCA object constructed yet.
NoLCA ==
    [constructed |-> FALSE, index |-> {}, demand |-> <<>>, method |-> <<>>,
     technosphere_matrix |-> <<>>, biosphere_matrix |-> <<>>,
     factorized |-> FALSE, supply_array |-> <<>>, inventory |-> <<>>,
     characterization_matrix |-> <<>>]

\* lca.lci(demand) on a constructed object whose matrices are loaded:
\* factorize lazily on the first solve, solve, derive the inventory.
lci(obj, demand) ==
    LET f == demand_array(obj.index, demand)
        s == solve(obj.technosphere_matrix, obj.index, f)
    IN [obj EXCEPT !.demand = demand,
                   !.factorized = TRUE,
                   !.supply_array = s,
                   !.inventory = inventory(obj.biosphere_matrix, obj.index, s)]

\* lca.switch_method(method): the object's active method and matrix change.
switch_method(obj, method) ==
    [obj EXCEPT !.method = method,
                !.characterization_matrix = build_characterization(method)]

\* ------------------------------------------------------------ utils.py
\* variant: only the first two parts of the key are joined
JoinKey_two(key) ==
    IF Len(key) = 0 THEN ""
    ELSE IF Len(key) = 1 THEN key[1]
    ELSE key[1] \o " | " \o key[2]

\* " | ".join(key)
RECURSIVE JoinKey(_)
JoinKey(key) ==
    IF Len(key) = 0 THEN ""
    ELSE IF Len(key) = 1 THEN key[1]
    ELSE JoinKey(SubSeq(key, 1, Len(key) - 1)) \o " | " \o key[Len(key)]

\* {" | ".join(key): value for key, value in inner_dict.items()}
RECURSIVE convert_inner(_)
convert_inner(inner_dict) ==
    IF inner_dict = <<>> THEN <<>>
    ELSE LET n == Len(inner_dict)
         IN DictSet(convert_inner(SubSeq(inner_dict, 1, n - 1)),
                    JoinKey(inner_dict[n][1]), inner_dict[n][2])

convert_results_format(res) ==
    [outer_key \in DOMAIN res |-> convert_inner(res[outer_key])]


\* -------------------------------------------------------------- inputs
Amounts == 1..MaxAmount

\* the dicts with exactly k distinct keys drawn from K and amounts from A
RECURSIVE DictsOfLen(_, _, _)
DictsOfLen(K, A, k) ==
    IF k = 0 THEN { <<>> }
    ELSE UNION { { Append(d, <<key, a>>) : key \in K \ DictKeySet(d), a \in A }
                 : d \in DictsOfLen(K, A, k - 1) }

SeqsUpTo(S, k) == UNION { [1..m -> S] : m \in 0..k }

\* demand lists: up to MaxDemands demands of at most one process each, or
\* one demand of up to MaxKeys processes
DemandLists(K, A) ==
    SeqsUpTo(DictsOfLen(K, A, 0) \cup DictsOfLen(K, A, 1), MaxDemands)
    \cup { <<d>> : d \in UNION { DictsOfLen(K, A, k) : k \in 0..MaxKeys } }

MethodLists == SeqsUpTo({M1, M2, MX}, MaxMethods)

\* models.LCAInput
LCAInput(demands, impact_categories) ==
    [demands |-> demands, impact_categories |-> impact_categories]

\* direct evaluations: any amounts of the processes of the database (an
\* unknown process is one evaluated while another project is current)
LCAInputs ==
    { LCAInput(ds, ms) :
        ds \in DemandLists({ <<a.database, a.code>> : a \in Activities }, Amounts),
        ms \in MethodLists }

\* models.LCARequest; lcia_method "" stands for None
LCARequest(demands, impact_categories, lcia_method) ==
    [demands |-> demands, impact_categories |-> impact_categories,
     lcia_method |-> lcia_method]

\* request bodies: unit amounts of known and unknown codes, with either
\* impact_categories or an lcia_method
LCARequests ==
    { LCARequest(ds, ms, "") : ds \in DemandLists(Codes, {1}), ms \in MethodLists }
    \cup { LCARequest(ds, <<>>, fam) : ds \in DemandLists(Codes, {1}), fam \in {"EF", "ZZ"} }

\* demands with every amount multiplied by k
ScaleDemands(demands, k) ==
    [i \in DOMAIN demands |->
        [j \in DOMAIN demands[i] |-> <<demands[i][j][1], k * demands[i][j][2]>>]]

\* the evaluations a caller compares a finished evaluation with, in the
\* order they are made: each of its demands alone, each process of a
\* several-process demand alone, and its multiples within the amounts
Derived(inp) ==
    LET ds == inp.demands
        parts == [i \in DOMAIN ds |-> <<ds[i]>>]
        split(d) == IF Len(d) < 2 THEN <<>> ELSE [j \in DOMAIN d |-> << <<d[j]>> >>]
        singles == IF ds = <<>> THEN <<>> ELSE split(ds[1])
        InRange(x) == \A i \in DOMAIN x : \A j \in DOMAIN x[i] : x[i][j][2] \in Amounts
        scaled == SelectSeq([k \in 1..(MaxAmount - 1) |-> ScaleDemands(ds, k + 1)], InRange)
        all == parts \o singles \o scaled
    IN [i \in DOMAIN all |-> LCAInput(all[i], inp.impact_categories)]

\* the evaluations that are compared with others: existing processes and
\* registered methods, no method twice
ComparedInputs ==
    LET valid == { <<"db", c>> : c \in { a.code : a \in { b \in Activities :
                                            TechnosphereEntry(b.id, b.id) # 0 } } }
        distinct == { ms \in SeqsUpTo(RegisteredMethods, MaxMethods) :
                        /\ Len(ms) > 0
                        /\ \A i \in DOMAIN ms : \A j \in DOMAIN ms : ms[i] = ms[j] => i = j }
        nonempty == { ds \in DemandLists(valid, Amounts) :
                        /\ Len(ds) > 0
                        /\ \A i \in DOMAIN ds : Len(ds[i]) > 0 }
    IN { LCAInput(ds, ms) : ds \in nonempty, ms \in distinct }

\* --------------------------------------------------------------- state
VARIABLES
    pc,               \* position of the running call; "idle" when none runs
    entry,            \* entry point of the last call: staticLCA or run_lca
    request,          \* run_lca: project_name, database_name, body
    inputs,           \* staticLCA: the LCAInput argument
    current_project,  \* bd.projects.current (process-wide)
    lca,              \* staticLCA: the bc.LCA object
    C_matrices,       \* staticLCA: method -> characterization matrix copy
    results,          \* staticLCA: label -> {method: score}
    act,              \* staticLCA: activity of the demand being evaluated
    di,               \* index of the demand being evaluated
    mi,               \* index of the method being cached / scored
    outcome,          \* what the last call returned or raised
    n,                \* per-call operation counts on the collaborators
    done,             \* finished staticLCA calls: inputs and outcome
    cursor,           \* position in Derived of the last compared evaluation
    parked,           \* run_lca: the frame of the request that is not running
    conv              \* convert_results_format: argument and returned value

vars == <<pc, entry, request, inputs, current_project, lca, C_matrices,
          results, act, di, mi, outcome, n, done, cursor, parked, conv>>

NoRequest == [project_name |-> "", database_name |-> "",
              body |-> LCARequest(<<>>, <<>>, "")]

NoAct == [id |-> 0, code |-> "", database |-> "", name |-> "", location |-> ""]

ZeroCounts ==
    [staticLCA |-> 0, LCA |-> 0, load |-> 0, factorize |-> 0, solve |-> 0,
     switch |-> 0, cbuild |-> 0, lookup |-> 0, characterize |-> 0, dbget |-> 0]

Pending == [kind |-> "pending", exc |-> "", status |-> 0, detail |-> <<>>, value |-> <<>>]

Raised(exc, status, detail) ==
    [kind |-> "raised", exc |-> exc, status |-> status, detail |-> detail, value |-> <<>>]

Returned(value) ==
    [kind |-> "returned", exc |-> "", status |-> 0, detail |-> <<>>, value |-> value]

\* the frame of a request handler that has not started
NewFrame ==
    [pc |-> "idle", entry |-> "none", request |-> NoRequest,
     inputs |-> LCAInput(<<>>, <<>>), lca |-> NoLCA, C_matrices |-> <<>>,
     results |-> <<>>, act |-> NoAct, di |-> 0, mi |-> 0, outcome |-> Pending,
     n |-> ZeroCounts]

\* convert_results_format has not been called on its own
NotConverted == [called |-> FALSE, results |-> <<>>, converted_results |-> <<>>]

Init ==
    /\ pc = "idle"
    /\ entry = "none"
    /\ request = NoRequest
    /\ inputs = LCAInput(<<>>, <<>>)
    /\ current_project \in Projects
    /\ lca = NoLCA
    /\ C_matrices = <<>>
    /\ results = <<>>
    /\ act = NoAct
    /\ di = 0
    /\ mi = 0
    /\ outcome = Pending
    /\ n = ZeroCounts
    /\ done = <<>>
    /\ cursor = 0
    /\ parked = NewFrame
    /\ conv = NotConverted

\* the locals of a fresh staticLCA frame
FreshLocals ==
    /\ lca' = NoLCA
    /\ C_matrices' = <<>>
    /\ results' = <<>>
    /\ act' = NoAct
    /\ di' = 0
    /\ mi' = 0

\* the running call ends with outcome o
Finish(o) ==
    /\ pc' = "idle"
    /\ outcome' = o
    /\ done' = IF entry = "staticLCA"
               THEN Append(done, [inputs |-> inputs, outcome |-> o])
               ELSE done


\* ------------------------------------------------------------- run_lca
\* the keys of all demands, in the order the validation loop visits them
RECURSIVE FlatKeys(_)
FlatKeys(demands) ==
    IF demands = <<>> THEN <<>>
    ELSE DictKeys(Head(demands)) \o FlatKeys(Tail(demands))

\* [{(database_name, key): amount for key, amount in demand.items()} ...]
QualifiedDemands(database_name, demands) ==
    [i \in DOMAIN demands |->
        [j \in DOMAIN demands[i] |->
            << <<database_name, demands[i][j][1]>>, demands[i][j][2] >>]]

\* [method for method in bd.methods if body.lcia_method == method[0]]
FamilyMethods(lcia_method) ==
    LET IsMember(method) == method[1] = lcia_method
    IN SelectSeq(methods_registry, IsMember)

\* variant: only the first key of each demand is looked up
unfound_keys_first(project_name, database_name, demands) ==
    LET keys == FlatKeys([i \in DOMAIN demands |->
                            IF demands[i] = <<>> THEN <<>> ELSE <<demands[i][1]>>])
    IN { i \in DOMAIN keys : Lookup(project_name, database_name, keys[i]) = {} }

\* lines 528-535: the positions (in visiting order) of the keys db.get
\* does not find
unfound_keys(project_name, database_name, demands) ==
    LET keys == FlatKeys(demands)
    IN { i \in DOMAIN keys : Lookup(project_name, database_name, keys[i]) = {} }

\* run_lca up to its call of staticLCA: validates the project, the database,
\* every demand key and the method selection.
run_lca(project_name, database_name, body) ==
    LET keys == FlatKeys(body.demands)
        missing == unfound_keys(project_name, database_name, body.demands)
        unknown == { i \in DOMAIN body.impact_categories :
                       body.impact_categories[i] \notin RegisteredMethods }
        counted(k) == [ZeroCounts EXCEPT !.dbget = k]
        fail(o, k) == /\ Finish(o)
                      /\ n' = counted(k)
                      /\ inputs' = LCAInput(<<>>, <<>>)
    IN
    /\ pc = "idle"
    /\ entry = "none"
    /\ entry' = "run_lca"
    /\ request' = [project_name |-> project_name,
                   database_name |-> database_name, body |-> body]
    /\ FreshLocals
    /\ UNCHANGED <<parked, conv, cursor>>
    /\ IF project_name \notin Projects
       THEN /\ fail(Raised("HTTPException", 404, <<"Project not found.">>), 0)
            /\ UNCHANGED current_project
       ELSE
       /\ current_project' = project_name
       /\ IF database_name \notin DatabasesOf(project_name)
          THEN fail(Raised("HTTPException", 404, <<"Database not found.">>), 0)
          ELSE IF missing # {}
          THEN fail(Raised("HTTPException", 404,
                           <<"Activity", keys[Min(missing)], "not found.">>),
                    Min(missing))
          ELSE IF body.lcia_method = "" /\ body.impact_categories # <<>> /\ unknown # {}
          THEN fail(Raised("HTTPException", 404, <<"Impact category not found.">>),
                    Len(keys))
          ELSE IF body.lcia_method = "" /\ body.impact_categories = <<>>
          THEN fail(Raised("HTTPException", 400,
                           <<"No impact categories provided or lcia method provided.">>),
                    Len(keys))
          ELSE /\ inputs' = LCAInput(QualifiedDemands(database_name, body.demands),
                                     IF body.lcia_method # ""
                                     THEN FamilyMethods(body.lcia_method)
                                     ELSE body.impact_categories)
               /\ pc' = "static_entry"
               /\ outcome' = Pending
               /\ n' = [counted(Len(keys)) EXCEPT !.staticLCA = 1]
               /\ UNCHANGED done

\* ----------------------------------------------------------- staticLCA
\* a new staticLCA frame for the argument inp
Enter(inp) ==
    /\ entry' = "staticLCA"
    /\ inputs' = inp
    /\ pc' = "static_entry"
    /\ outcome' = Pending
    /\ n' = [ZeroCounts EXCEPT !.staticLCA = 1]
    /\ FreshLocals
    /\ UNCHANGED <<request, current_project, done>>

\* a direct call of staticLCA(inputs)
staticLCA_call(inp) ==
    /\ pc = "idle"
    /\ entry = "none"
    /\ Enter(inp)
    /\ UNCHANGED <<parked, conv, cursor>>

\* the positions of Derived the caller may evaluate next: after a returned
\* first evaluation, the later entries of its Derived list
Comparable ==
    IF /\ pc = "idle"
       /\ entry = "staticLCA"
       /\ Len(done) \in 1..(MaxCalls - 1)
       /\ done[1].outcome.kind = "returned"
    THEN { i \in DOMAIN Derived(done[1].inputs) : i > cursor }
    ELSE {}

\* a further direct call of staticLCA, on the i-th evaluation derived from
\* the first one
compare_call(i) ==
    /\ i \in Comparable
    /\ Enter(Derived(done[1].inputs)[i])
    /\ cursor' = i
    /\ UNCHANGED <<parked, conv>>

\* variant: the methods check is missing
CheckMethods_skipped ==
    /\ pc = "static_entry"
    /\ pc' = "construct"
    /\ UNCHANGED <<outcome, done>>
    /\ UNCHANGED <<parked, conv, cursor, entry, request, inputs, current_project, lca, C_matrices,
                   results, act, di, mi, n>>

\* lines 426-438: at least one method must be given
CheckMethods ==
    /\ pc = "static_entry"
    /\ IF Len(inputs.impact_categories) = 0
       THEN /\ Finish(Raised("ValueError", 0, <<"No methods were specified.">>))
       ELSE /\ pc' = "construct"
            /\ UNCHANGED <<outcome, done>>
    /\ UNCHANGED <<parked, conv, cursor, entry, request, inputs, current_project, lca, C_matrices,
                   results, act, di, mi, n>>

\* {id: 1 for id in ids}
RECURSIVE UnitDemand(_)
UnitDemand(ids) ==
    IF ids = {} THEN <<>>
    ELSE <<<<Min(ids), 1>>>> \o UnitDemand(ids \ {Min(ids)})

\* variant: only the first demand enters the union demand
all_demands_first(demands) ==
    IF demands = <<>> THEN {} ELSE DictKeySet(demands[1])

\* line 441: the keys of {k: 1 for demand in demands for k in demand}
all_demands(demands) == UNION { DictKeySet(demands[i]) : i \in DOMAIN demands }

\* lines 441-444: the union demand, the LCA object and the first lci()
ConstructLCA ==
    LET methods == inputs.impact_categories
        demands == inputs.demands
        wanted == all_demands(demands)
        missing == { k \in wanted : ~Exists(current_project, k) }
        ids == { get_activity(current_project, k).id : k \in wanted }
        index == Closure(ids)
        obj == [NoLCA EXCEPT !.constructed = TRUE,
                             !.index = index,
                             !.demand = UnitDemand(ids),
                             !.method = methods[1],
                             !.technosphere_matrix = technosphere_matrix(index),
                             !.biosphere_matrix = biosphere_matrix(index)]
        raise(o, counts) == /\ Finish(o)
                            /\ n' = counts
                            /\ UNCHANGED <<lca, mi>>
    IN
    /\ pc = "construct"
    /\ \/ /\ wanted = {}
          /\ raise(Raised("DemandError", 0, <<"empty demand">>), n)
       \/ /\ missing # {}
          /\ raise(Raised("NotFoundError", 0, CHOOSE k \in missing : TRUE), n)
       \/ /\ missing = {}
          /\ methods[1] \notin RegisteredMethods
          /\ raise(Raised("NotFoundError", 0, methods[1]), n)
       \/ /\ missing = {}
          /\ methods[1] \in RegisteredMethods
          /\ IF Singular(obj.technosphere_matrix, index)
             THEN raise(Raised("NumericalError", 0, <<"singular matrix">>),
                        [n EXCEPT !.LCA = @ + 1, !.load = @ + 1])
             ELSE /\ lca' = lci(obj, obj.demand)
                  /\ n' = [n EXCEPT !.LCA = @ + 1, !.load = @ + 1,
                                    !.factorize = @ + 1, !.solve = @ + 1]
                  /\ pc' = "cache"
                  /\ mi' = 1
                  /\ UNCHANGED <<outcome, done>>
    /\ UNCHANGED <<parked, conv, cursor, entry, request, inputs, current_project, C_matrices,
                   results, act, di>>


\* lines 449-451: one characterization matrix copy per method
CacheMethod ==
    LET methods == inputs.impact_categories
        method == methods[mi]
        switched == switch_method(lca, method)
    IN
    /\ pc = "cache"
    /\ IF method \notin RegisteredMethods
       THEN /\ Finish(Raised("NotFoundError", 0, method))
            /\ UNCHANGED <<lca, C_matrices, mi, di, n>>
       ELSE /\ lca' = switched
            /\ C_matrices' = (method :> switched.characterization_matrix) @@ C_matrices
            /\ n' = [n EXCEPT !.switch = @ + 1, !.cbuild = @ + 1]
            /\ IF mi < Len(methods)
               THEN /\ mi' = mi + 1
                    /\ UNCHANGED <<pc, di>>
               ELSE /\ pc' = "demand"
                    /\ di' = 1
                    /\ UNCHANGED mi
            /\ UNCHANGED <<outcome, done>>
    /\ UNCHANGED <<parked, conv, cursor, entry, request, inputs, current_project, results, act>>

\* variant: the demanded amount is dropped, {act.id: 1}
IntDemand_unit(id, demand) ==
    IF demand = <<>> THEN <<>> ELSE << <<id, 1>> >>

\* {act.id: value for _, value in demand.items()}
RECURSIVE IntDemand(_, _)
IntDemand(id, demand) ==
    IF demand = <<>> THEN <<>>
    ELSE DictSet(IntDemand(id, SubSeq(demand, 1, Len(demand) - 1)),
                 id, demand[Len(demand)][2])

\* variant: a demand without process is skipped instead of failing
DemandStep_skip ==
    LET methods == inputs.impact_categories
        demand == inputs.demands[di]
        key == DictKeys(demand)[1]
        found == get_activity(current_project, key)
        int_demand == IntDemand(found.id, demand)
        raise(o, counts) == /\ Finish(o)
                            /\ n' = counts
                            /\ UNCHANGED <<lca, results, act, mi, di>>
    IN
    /\ pc = "demand"
    /\ di <= Len(inputs.demands)
    /\ IF Len(demand) = 0
       THEN /\ di' = di + 1
            /\ UNCHANGED <<pc, lca, results, act, mi, n, outcome, done>>
       ELSE IF ~Exists(current_project, key)
       THEN raise(Raised("NotFoundError", 0, key), [n EXCEPT !.lookup = @ + 1])
       ELSE IF found.id \notin lca.index
       THEN raise(Raised("DemandIndexError", 0, key), [n EXCEPT !.lookup = @ + 1])
       ELSE /\ act' = found
            /\ results' = (Label(found) :> DictFromKeys(methods, None)) @@ results
            /\ lca' = lci(lca, int_demand)
            /\ n' = [n EXCEPT !.lookup = @ + 1, !.solve = @ + 1,
                              !.factorize = @ + (IF lca.factorized THEN 0 ELSE 1)]
            /\ pc' = "score"
            /\ mi' = 1
            /\ UNCHANGED <<outcome, done, di>>
    /\ UNCHANGED <<parked, conv, cursor, entry, request, inputs, current_project, C_matrices>>

\* lines 456-463: look the demanded activity up, open its result entry and
\* solve the inventory of the demand
DemandStep ==
    LET methods == inputs.impact_categories
        demand == inputs.demands[di]
        key == DictKeys(demand)[1]
        found == get_activity(current_project, key)
        int_demand == IntDemand(found.id, demand)
        raise(o, counts) == /\ Finish(o)
                            /\ n' = counts
                            /\ UNCHANGED <<lca, results, act, mi>>
    IN
    /\ pc = "demand"
    /\ di <= Len(inputs.demands)
    /\ IF Len(demand) = 0
       THEN raise(Raised("IndexError", 0, <<"list index out of range">>), n)
       ELSE IF ~Exists(current_project, key)
       THEN raise(Raised("NotFoundError", 0, key), [n EXCEPT !.lookup = @ + 1])
       ELSE IF found.id \notin lca.index
       THEN raise(Raised("DemandIndexError", 0, key), [n EXCEPT !.lookup = @ + 1])
       ELSE /\ act' = found
            /\ results' = (Label(found) :> DictFromKeys(methods, None)) @@ results
            /\ lca' = lci(lca, int_demand)
            /\ n' = [n EXCEPT !.lookup = @ + 1, !.solve = @ + 1,
                              !.factorize = @ + (IF lca.factorized THEN 0 ELSE 1)]
            /\ pc' = "score"
            /\ mi' = 1
            /\ UNCHANGED <<outcome, done>>
    /\ UNCHANGED <<parked, conv, cursor, entry, request, inputs, current_project, C_matrices, di>>

\* variant: the score is taken with the matrix of the LCA object's active
\* method instead of the cached copy of the requested method
ScoreStep_stale ==
    LET methods == inputs.impact_categories
        method == methods[mi]
        value == score(lca.characterization_matrix, lca.inventory)
    IN
    /\ pc = "score"
    /\ results' = [results EXCEPT ![Label(act)] = DictSet(@, method, Computed(value))]
    /\ n' = [n EXCEPT !.characterize = @ + 1]
    /\ IF mi < Len(methods)
       THEN /\ mi' = mi + 1
            /\ UNCHANGED <<pc, di>>
       ELSE /\ pc' = "demand"
            /\ di' = di + 1
            /\ UNCHANGED mi
    /\ UNCHANGED <<parked, conv, cursor, entry, request, inputs, current_project, C_matrices, act,
                   outcome, done, lca>>

\* lines 464-466: the score of the current demand for one method
ScoreStep ==
    LET methods == inputs.impact_categories
        method == methods[mi]
        value == score(C_matrices[method], lca.inventory)
    IN
    /\ pc = "score"
    /\ lca' = switch_method(lca, method)
    /\ results' = [results EXCEPT ![Label(act)] = DictSet(@, method, Computed(value))]
    /\ n' = [n EXCEPT !.switch = @ + 1, !.cbuild = @ + 1, !.characterize = @ + 1]
    /\ IF mi < Len(methods)
       THEN /\ mi' = mi + 1
            /\ UNCHANGED <<pc, di>>
       ELSE /\ pc' = "demand"
            /\ di' = di + 1
            /\ UNCHANGED mi
    /\ UNCHANGED <<parked, conv, cursor, entry, request, inputs, current_project, C_matrices, act,
                   outcome, done>>

\* lines 467-468 (and 565): the converted results are returned
ReturnResults ==
    /\ pc = "demand"
    /\ di > Len(inputs.demands)
    /\ Finish(Returned(convert_results_format(results)))
    /\ UNCHANGED <<parked, conv, cursor, entry, request, inputs, current_project, lca, C_matrices,
                   results, act, di, mi, n>>

\* the (project_name, database_name) targets of the requests
RequestTargets ==
    { <<"proj", "db">>, <<"proj", "nodb">>, <<"default", "db">>, <<"nope", "db">> }

Next ==
    \/ /\ pc = "idle"
       /\ entry = "none"
       /\ \E target \in RequestTargets, body \in LCARequests :
             run_lca(target[1], target[2], body)
    \/ /\ pc = "idle"
       /\ entry = "none"
       /\ \E inp \in LCAInputs : staticLCA_call(inp)
    \/ CheckMethods
    \/ ConstructLCA
    \/ CacheMethod
    \/ DemandStep
    \/ ScoreStep
    \/ ReturnResults

\* one request or one direct evaluation
Spec == Init /\ [][Next]_vars

NextCompared ==
    \/ /\ pc = "idle"
       /\ entry = "none"
       /\ \E inp \in ComparedInputs : staticLCA_call(inp)
    \/ \E i \in Comparable : compare_call(i)
    \/ CheckMethods
    \/ ConstructLCA
    \/ CacheMethod
    \/ DemandStep
    \/ ScoreStep
    \/ ReturnResults

\* a direct evaluation followed by the evaluations it is compared with
SpecCompared == Init /\ [][NextCompared]_vars

\* ------------------------------------------------- two run_lca requests
\* the frame of the running request handler
Frame ==
    [pc |-> pc, entry |-> entry, request |-> request, inputs |-> inputs,
     lca |-> lca, C_matrices |-> C_matrices, results |-> results, act |-> act,
     di |-> di, mi |-> mi, outcome |-> outcome, n |-> n]

\* variant: the handler is served by a worker thread and can be suspended
\* at any point
MaySwitch_threaded == TRUE

\* run_lca is a coroutine (async def) without await and calls staticLCA
\* synchronously: the event loop takes up another request only when the
\* running handler has returned or raised
MaySwitch == pc = "idle"

\* the event loop turns to the other request: the locals of the two
\* handlers are exchanged, bd.projects.current stays what it is
switch_request ==
    /\ MaySwitch
    /\ parked' = Frame
    /\ pc' = parked.pc
    /\ entry' = parked.entry
    /\ request' = parked.request
    /\ inputs' = parked.inputs
    /\ lca' = parked.lca
    /\ C_matrices' = parked.C_matrices
    /\ results' = parked.results
    /\ act' = parked.act
    /\ di' = parked.di
    /\ mi' = parked.mi
    /\ outcome' = parked.outcome
    /\ n' = parked.n
    /\ UNCHANGED <<current_project, done, cursor, conv>>

\* the bodies of the two requests: one to MaxDemands demands of one unit of
\* a process of the database, with an lcia_method or one impact category
InterleavedBodies ==
    LET unit == DictsOfLen({"P1", "P2"}, {1}, 1)
        ds == SeqsUpTo(unit, MaxDemands) \ { <<>> }
    IN { LCARequest(d, <<>>, "EF") : d \in ds }
       \cup { LCARequest(d, <<M2>>, "") : d \in ds }

NextInterleaved ==
    \/ /\ pc = "idle"
       /\ entry = "none"
       /\ \E target \in RequestTargets, body \in InterleavedBodies :
             run_lca(target[1], target[2], body)
    \/ switch_request
    \/ CheckMethods
    \/ ConstructLCA
    \/ CacheMethod
    \/ DemandStep
    \/ ScoreStep
    \/ ReturnResults

\* two run_lca requests served by one event loop
SpecInterleaved == Init /\ [][NextInterleaved]_vars

\* ------------------------------------- convert_results_format on its own
\* the strings method keys are made of; one of them contains the separator
KeyParts == {"a", "b", "a | a"}

\* 3-part method keys
MethodKeys ==
    { <<x, y, z>> : x \in KeyParts \ {"b"}, y \in KeyParts \ {"b"},
                    z \in KeyParts \ {"a | a"} }

\* the results dicts passed to the function: the labels of up to MaxDemands
\* activities, each with the same up to MaxMethods distinct method keys (as
\* line 459 fills them) and a score of its own per label and key
ConvertArgs ==
    LET keyed == UNION { DictsOfLen(MethodKeys, {0}, k) : k \in 0..MaxMethods }
        inner(a, d) == [j \in DOMAIN d |-> <<d[j][1], Computed(10 * a.id + j)>>]
        labelled(k) == { a \in Activities : a.id <= k }
        owner(k, lbl) == CHOOSE a \in labelled(k) : Label(a) = lbl
    IN { [lbl \in { Label(a) : a \in labelled(k) } |-> inner(owner(k, lbl), d)] :
           k \in 0..MaxDemands, d \in keyed }

InitConvert ==
    /\ pc = "idle"
    /\ entry = "none"
    /\ request = NoRequest
    /\ inputs = LCAInput(<<>>, <<>>)
    /\ current_project \in Projects
    /\ lca = NoLCA
    /\ C_matrices = <<>>
    /\ results = <<>>
    /\ act = NoAct
    /\ di = 0
    /\ mi = 0
    /\ outcome = Pending
    /\ n = ZeroCounts
    /\ done = <<>>
    /\ cursor = 0
    /\ parked = NewFrame
    /\ conv \in { [NotConverted EXCEPT !.results = res] : res \in ConvertArgs }

\* utils.py 1-10: converted_results = convert_results_format(results)
convert_call ==
    /\ ~conv.called
    /\ conv' = [conv EXCEPT !.called = TRUE,
                            !.converted_results = convert_results_format(conv.results)]
    /\ UNCHANGED <<pc, entry, request, inputs, current_project, lca, C_matrices,
                   results, act, di, mi, outcome, n, done, cursor, parked>>

NextConvert == convert_call

\* one call of convert_results_format on a results dict
SpecConvert == InitConvert /\ [][NextConvert]_vars

TypeOK ==
    /\ pc \in {"idle", "static_entry", "construct", "cache", "demand", "score"}
    /\ entry \in {"none", "staticLCA", "run_lca"}
    /\ current_project \in Projects
    /\ outcome.kind \in {"pending", "returned", "raised"}


\* ------------------------------------------------------------- claims
\* the score a returned Result reports under a label for a method
ReportedScore(o, lbl, method) == DictGet(o.value[lbl], JoinKey(method)).score

\* the label the Result uses for a demand: that of its first process
DemandLabel(demand) == Label(get_activity(current_project, demand[1][1]))

\* the only label of the Result of a one-demand evaluation
OnlyLabel(o) == CHOOSE lbl \in DOMAIN o.value : TRUE

BothReturned(x, y) ==
    /\ x.outcome.kind = "returned"
    /\ y.outcome.kind = "returned"
    /\ x.inputs.impact_categories = y.inputs.impact_categories

\* C1 (as stated): Additivity. For a finished evaluation of the single
\* demand {P: a, Q: b} and finished evaluations of {P: a} and of {Q: b}
\* with the same methods, the score of the combined demand equals, for every
\* method, the sum of the two individual scores.
C1_Additivity ==
    \A i \in DOMAIN done : \A j \in DOMAIN done : \A k \in DOMAIN done :
        LET x == done[i]
            y == done[j]
            z == done[k]
        IN ( /\ BothReturned(x, y)
             /\ BothReturned(x, z)
             /\ Len(x.inputs.demands) = 1
             /\ Len(x.inputs.demands[1]) = 2
             /\ y.inputs.demands = << <<x.inputs.demands[1][1]>> >>
             /\ z.inputs.demands = << <<x.inputs.demands[1][2]>> >> )
           => \A m \in Range(x.inputs.impact_categories) :
                 ReportedScore(x.outcome, OnlyLabel(x.outcome), m)
                   = ReportedScore(y.outcome, OnlyLabel(y.outcome), m)
                     + ReportedScore(z.outcome, OnlyLabel(z.outcome), m)

\* C2 (as stated): Reuse equivalence. For a finished evaluation of [d1, d2]
\* and a finished evaluation of [di] alone with the same methods, the score
\* reported under di's label by the joint evaluation equals the score
\* reported by the evaluation of di alone, for every method.
C2_ReuseEquivalence ==
    \A i \in DOMAIN done : \A j \in DOMAIN done :
        LET x == done[i]
            y == done[j]
        IN \A t \in DOMAIN x.inputs.demands :
             ( /\ BothReturned(x, y)
               /\ Len(x.inputs.demands) = 2
               /\ y.inputs.demands = << x.inputs.demands[t] >> )
             => \A m \in Range(x.inputs.impact_categories) :
                   ReportedScore(x.outcome, DemandLabel(x.inputs.demands[t]), m)
                     = ReportedScore(y.outcome, OnlyLabel(y.outcome), m)

\* C3: a staticLCA invocation with an empty methods list ends with the
\* ValueError of the methods check, and never constructs an LCA object,
\* looks an activity up, solves or characterizes, whatever the demands.
C3_EmptyMethodsRejected ==
    (n.staticLCA = 1 /\ Len(inputs.impact_categories) = 0)
    => /\ pc \in {"static_entry", "idle"}
       /\ pc = "idle" => (outcome.kind = "raised" /\ outcome.exc = "ValueError")
       /\ lca = NoLCA
       /\ n.LCA = 0 /\ n.load = 0 /\ n.factorize = 0 /\ n.solve = 0
       /\ n.lookup = 0 /\ n.switch = 0 /\ n.cbuild = 0 /\ n.characterize = 0

\* C3 witness: a direct call with two demands and no methods was rejected.
C3_Witness ==
    /\ pc = "idle"
    /\ entry = "staticLCA"
    /\ Len(inputs.impact_categories) = 0
    /\ Len(inputs.demands) = 2
    /\ \A i \in DOMAIN inputs.demands :
          /\ Len(inputs.demands[i]) = 1
          /\ Exists(current_project, inputs.demands[i][1][1])
    /\ outcome.exc = "ValueError"

\* C4: when a key of a run_lca request is not in the named database, the
\* request ends with a 404 HTTPException, staticLCA is not invoked and no
\* result is returned; when the project and database exist, the error names
\* the first such key in visiting order.
C4_MissingKeyRejected ==
    LET keys == FlatKeys(request.body.demands)
        absent == { i \in DOMAIN keys :
                      Lookup(request.project_name, request.database_name, keys[i]) = {} }
    IN (entry = "run_lca" /\ absent # {})
       => /\ pc = "idle"
          /\ outcome.kind = "raised"
          /\ outcome.exc = "HTTPException"
          /\ outcome.status = 404
          /\ outcome.value = <<>>
          /\ n.staticLCA = 0
          /\ n.LCA = 0
          /\ (request.project_name \in Projects
              /\ request.database_name \in DatabasesOf(request.project_name))
             => \E i \in absent :
                   /\ \A j \in absent : i <= j
                   /\ outcome.detail = <<"Activity", keys[i], "not found.">>

\* C4 witness: a request whose first demand is valid and whose second demand
\* names a missing key was rejected naming that key.
C4_Witness ==
    /\ pc = "idle"
    /\ entry = "run_lca"
    /\ request.project_name = "proj"
    /\ request.database_name = "db"
    /\ Len(request.body.demands) = 2
    /\ DictKeys(request.body.demands[1]) = <<"P1">>
    /\ DictKeys(request.body.demands[2]) = <<"PX">>
    /\ outcome.detail = <<"Activity", "PX", "not found.">>

\* C5 (as stated): a run_lca request with an existing project, database and
\* keys whose method selection resolves to no known method (an unknown
\* impact_categories entry, or an lcia_method family without members) ends
\* with a 404 HTTPException before any LCA object is built or solved.
C5_UnknownMethodNotFound ==
    LET body == request.body
        valid == /\ request.project_name \in Projects
                 /\ request.database_name \in DatabasesOf(request.project_name)
                 /\ unfound_keys(request.project_name, request.database_name,
                                 body.demands) = {}
        nomethod == \/ /\ body.lcia_method # ""
                       /\ FamilyMethods(body.lcia_method) = <<>>
                    \/ /\ body.lcia_method = ""
                       /\ \E i \in DOMAIN body.impact_categories :
                             body.impact_categories[i] \notin RegisteredMethods
    IN (entry = "run_lca" /\ pc = "idle" /\ valid /\ nomethod)
       => /\ outcome.kind = "raised"
          /\ outcome.exc = "HTTPException"
          /\ outcome.status = 404
          /\ n.LCA = 0
          /\ n.solve = 0


\* a step of the evaluation is bound to fail for the given input: a demand
\* without process, an unknown process, an unknown method, or a singular
\* technosphere matrix over the demanded processes
FailureExpected ==
    LET demands == inputs.demands
        methods == inputs.impact_categories
        wanted == UNION { DictKeySet(demands[i]) : i \in DOMAIN demands }
        known == { k \in wanted : Exists(current_project, k) }
        index == Closure({ get_activity(current_project, k).id : k \in known })
    IN \/ Len(methods) = 0
       \/ \E i \in DOMAIN demands : Len(demands[i]) = 0
       \/ known # wanted
       \/ \E m \in Range(methods) : m \notin RegisteredMethods
       \/ \E i \in index : TechnosphereEntry(i, i) = 0

\* C6: all-or-nothing. When a staticLCA invocation has returned a Result,
\* every demand of the input has an entry under its label holding a computed
\* score (never the initial None) for every requested method; and whenever a
\* lookup, solve or characterization step is bound to fail, the invocation
\* ends by raising and no Result is returned.
C6_AllOrNothing ==
    (pc = "idle" /\ n.staticLCA = 1)
    => /\ outcome.kind = "returned"
          => \A i \in DOMAIN inputs.demands :
                /\ Len(inputs.demands[i]) > 0
                /\ Exists(current_project, inputs.demands[i][1][1])
                /\ DemandLabel(inputs.demands[i]) \in DOMAIN outcome.value
                /\ \A m \in Range(inputs.impact_categories) :
                      LET entry_i == outcome.value[DemandLabel(inputs.demands[i])]
                      IN /\ DictHas(entry_i, JoinKey(m))
                         /\ DictGet(entry_i, JoinKey(m)).computed
       /\ FailureExpected
          => (outcome.kind = "raised" /\ outcome.value = <<>>)

\* C6 witness: an evaluation of two demands under two methods has returned.
C6_Witness ==
    /\ pc = "idle"
    /\ n.staticLCA = 1
    /\ outcome.kind = "returned"
    /\ Len(inputs.demands) = 2
    /\ inputs.impact_categories = <<M1, M2>>
    /\ Cardinality(DOMAIN outcome.value) = 2

\* the number of per-demand solves finished at the current position
DemandsSolved ==
    IF pc = "cache" THEN 0 ELSE IF pc = "score" THEN di ELSE di - 1

InOrAfterLoop ==
    /\ n.staticLCA = 1
    /\ \/ pc \in {"demand", "score"}
       \/ pc = "idle" /\ outcome.kind = "returned"

\* the index set of the matrices built over all demanded processes
UnionIndex ==
    Closure({ get_activity(current_project, k).id :
                k \in UNION { DictKeySet(inputs.demands[i]) : i \in DOMAIN inputs.demands } })

C8_CharacterizationOncePerMethod ==
    InOrAfterLoop
    => /\ n.cbuild = Len(inputs.impact_categories)
       /\ n.switch = Len(inputs.impact_categories)

\* the scaling vectors of a demand of `amount` of process `id`: the
\* solutions of A.s = f over the processes reachable from it
Scalings(id, amount) ==
    LET index == Closure({id})
        f == [i \in index |-> IF i = id THEN amount ELSE 0]
        Row(i, s) == SumOver(index, [j \in index |-> TechnosphereEntry(i, j) * s[j]])
    IN { s \in [index -> 0..(3 * MaxAmount)] : \A i \in index : Row(i, s) = f[i] }

\* sum of C.g for g = B.s
CharacterizedInventory(method, s) ==
    LET Emitted(e) == SumOver(DOMAIN s, [j \in DOMAIN s |-> BiosphereEntry(e, j) * s[j]])
    IN SumOver(Flows, [e \in Flows |-> characterization_factors(method)[e] * Emitted(e)])

\* C9: when staticLCA has returned, the score reported for a single-process
\* demand (the last one of its process in the list) and a method is the sum
\* of C.g for g = B.s and the s with A.s = f; for the demand {P1: 1} the
\* methods with factors 3 and 1 report 30 and 10.
C9_ScoreIsCharacterizedInventory ==
    (pc = "idle" /\ n.staticLCA = 1 /\ outcome.kind = "returned")
    => \A i \in DOMAIN inputs.demands :
          LET demand == inputs.demands[i]
              later == { j \in DOMAIN inputs.demands :
                           j > i /\ inputs.demands[j][1][1] = demand[1][1] }
              id == get_activity(current_project, demand[1][1]).id
          IN (Len(demand) = 1 /\ later = {})
             => \A m \in Range(inputs.impact_categories) :
                   LET reported == ReportedScore(outcome, DemandLabel(demand), m)
                   IN /\ \E s \in Scalings(id, demand[1][2]) :
                            reported = CharacterizedInventory(m, s)
                      /\ \A s \in Scalings(id, demand[1][2]) :
                            reported = CharacterizedInventory(m, s)
                      /\ (demand = << << <<"db", "P1">>, 1 >> >>)
                         => /\ m = M1 => reported = 30
                            /\ m = M2 => reported = 10

\* C9 witness: the demand {P1: 1} evaluated under both methods reported 30
\* and 10.
C9_Witness ==
    /\ pc = "idle"
    /\ n.staticLCA = 1
    /\ outcome.kind = "returned"
    /\ inputs.demands = << << << <<"db", "P1">>, 1 >> >> >>
    /\ inputs.impact_categories = <<M1, M2>>
    /\ ReportedScore(outcome, OnlyLabel(outcome), M1) = 30
    /\ ReportedScore(outcome, OnlyLabel(outcome), M2) = 10

\* C10: linearity. For a finished evaluation and a finished evaluation of
\* the same demands with every amount multiplied by k under the same
\* methods, the Results have the same labels and every score of the second
\* is k times the score of the first.
C10_Linearity ==
    \A i \in DOMAIN done : \A j \in DOMAIN done : \A k \in 1..MaxAmount :
        LET x == done[i]
            y == done[j]
        IN ( /\ BothReturned(x, y)
             /\ y.inputs.demands = ScaleDemands(x.inputs.demands, k) )
           => /\ DOMAIN y.outcome.value = DOMAIN x.outcome.value
              /\ \A lbl \in DOMAIN x.outcome.value :
                    \A m \in Range(x.inputs.impact_categories) :
                       ReportedScore(y.outcome, lbl, m)
                         = k * ReportedScore(x.outcome, lbl, m)

\* C10 witness: an evaluation and its double have both returned non-zero
\* scores.
C10_Witness ==
    \E i \in DOMAIN done : \E j \in DOMAIN done :
        /\ BothReturned(done[i], done[j])
        /\ Len(done[i].inputs.demands) >= 1
        /\ done[j].inputs.demands = ScaleDemands(done[i].inputs.demands, 2)
        /\ \E lbl \in DOMAIN done[i].outcome.value :
              \E m \in Range(done[i].inputs.impact_categories) :
                 /\ ReportedScore(done[i].outcome, lbl, m) > 0
                 /\ ReportedScore(done[j].outcome, lbl, m)
                      = 2 * ReportedScore(done[i].outcome, lbl, m)

\* the methods a request body selects
SelectedMethods(body) ==
    IF body.lcia_method # "" THEN FamilyMethods(body.lcia_method)
    ELSE body.impact_categories

\* o is the outcome the request req has when it is the only request served:
\* 404 for an unknown project or database, else a Result with one entry per
\* demanded process of req's own project and, for every selected method,
\* the characterized inventory of one unit of that process
OutcomeAlone(req, o) ==
    LET demands == QualifiedDemands(req.database_name, req.body.demands)
        found(i) == get_activity(req.project_name, demands[i][1][1])
    IN IF req.project_name \notin Projects
       THEN o = Raised("HTTPException", 404, <<"Project not found.">>)
       ELSE IF req.database_name \notin DatabasesOf(req.project_name)
       THEN o = Raised("HTTPException", 404, <<"Database not found.">>)
       ELSE /\ o.kind = "returned"
            /\ DOMAIN o.value = { Label(found(i)) : i \in DOMAIN demands }
            /\ \A i \in DOMAIN demands : \A m \in Range(SelectedMethods(req.body)) :
                  /\ Scalings(found(i).id, demands[i][1][2]) # {}
                  /\ \A s \in Scalings(found(i).id, demands[i][1][2]) :
                        ReportedScore(o, Label(found(i)), m)
                          = CharacterizedInventory(m, s)

SplitPart(part) == IF part = "a | a" THEN <<"a", "a">> ELSE <<part>>

\* " | ".join(key).split(" | "): the pieces of every part, in order
RECURSIVE SplitJoined(_)
SplitJoined(key) ==
    IF key = <<>> THEN <<>>
    ELSE SplitPart(Head(key)) \o SplitJoined(Tail(key))

\* no part of the key contains the separator
SeparatorFree(key) == \A i \in DOMAIN key : SplitPart(key[i]) = <<key[i]>>

\* the entry of the method key at position j of `inner` survives in `out`:
\* its string is the parts joined with " | ", no other key of the demand has
\* the same string, the string carries the key's score and splitting it on
\* the separator gives the key back
Recoverable(inner, out, j) ==
    LET key == inner[j][1]
    IN /\ JoinKey(key) = key[1] \o " | " \o key[2] \o " | " \o key[3]
       /\ DictHas(out, JoinKey(key))
       /\ DictGet(out, JoinKey(key)) = inner[j][2]
       /\ \A i \in DOMAIN inner : i # j => JoinKey(inner[i][1]) # JoinKey(key)
       /\ SplitJoined(key) = key

====
